---- MODULE Spec2Model ----
(***************************************************************************)
(* Model of src/utils/art_monitoring_client.c: one invocation of main()    *)
(* from getaddrinfo() to the return statement, with the helper             *)
(* json_send_and_receive().  The environment (resolver, socket(),          *)
(* connect(), send(), recv(), the peer's reply) is chosen with \E at the   *)
(* step that calls it.  A socket is identified by the index of the         *)
(* candidate it was created for.                                           *)
(***************************************************************************)
EXTENDS Integers, Sequences, FiniteSets, TLC

\* Largest number of addrinfo candidates the resolver returns in the model.
MaxCand == 3

VARIABLES
    pc,          \* position in main() / json_send_and_receive()
    status,      \* result of getaddrinfo(): "unset", "ok", "EAI_SYSTEM", "EAI_OTHER"
    nAddr,       \* length of the addrinfo list `addresses`
    current,     \* index into the list; nAddr + 1 stands for NULL
    socket_fd,   \* 0: not yet assigned, -1: socket() failed, k: socket of candidate k
    open,        \* set of sockets currently open
    closed,      \* history: the argument of every close() call, in order
    badClose,    \* history: some close() was called on a socket that was not open
    tried,       \* history: outcome per candidate tried: "sockfail", "connfail", "ok"
    connected,   \* socket on which connect() returned 0, or 0
    nSend,       \* history: number of send() calls
    sendRet,     \* "none", "ok", "err"
    nRecv,       \* history: number of recv() calls
    recvRet,     \* "none", "err" (-1), "zero" (0 bytes), "data" (> 0 bytes)
    resp,        \* the reply buffer `resp`
    nParse,      \* history: number of json_tokener_parse() calls
    obj,         \* the json_object* `obj` of main()
    present,     \* per subsection: "untested", "present", "absent"
    passed,      \* "PASSED !" has been logged
    exit         \* "running", "EXIT_SUCCESS", "EXIT_FAILURE", "SIGSEGV"

vars == <<pc, status, nAddr, current, socket_fd, open, closed, badClose, tried,
          connected, nSend, sendRet, nRecv, recvRet, resp, nParse, obj,
          present, passed, exit>>

connVars == <<status, nAddr, current, socket_fd, open, closed, badClose, tried, connected>>
xchgVars == <<nSend, sendRet, nRecv, recvRet, resp, nParse, obj>>

(***************************************************************************)
(* Replies.  A well-formed reply is a JSON object described by the set of  *)
(* top-level keys it holds, by the "status" member of "disciplining" and   *)
(* by the "temperature_table" member of "disciplining_parameters".         *)
(***************************************************************************)
\* Top-level keys a reply may hold: the six literals main() looks up, and the
\* spelling action_requested used by the specification.
Keys == {"disciplining", "oscillator", "clock", "gnss",
         "disciplining_parameters", "Action requested", "action_requested"}

\* The subsections of the StatusReport.
Subsections == {"disciplining", "oscillator", "clock", "gnss",
                "disciplining_parameters", "action_requested"}

StatusVals == {"absent", "TRACKING", "OTHER"}
TableVals == {"absent", "object", "nonobject"}

Docs == {d \in [keys : SUBSET Keys, status : StatusVals, temperature_table : TableVals] :
            /\ ("disciplining" \notin d.keys => d.status = "absent")
            /\ ("disciplining_parameters" \notin d.keys => d.temperature_table = "absent")}

EmptyDoc == [keys |-> {}, status |-> "absent", temperature_table |-> "absent"]

NullObj == [null |-> TRUE, doc |-> EmptyDoc]
ObjOf(d) == [null |-> FALSE, doc |-> d]

\* The list index that stands for a NULL `current`.
IsNull(cur) == cur > nAddr

\* Number of times x occurs in sequence s.
CountIn(s, x) == Cardinality({i \in 1..Len(s) : s[i] = x})

Init ==
    /\ pc = "getaddrinfo"
    /\ status = "unset"
    /\ nAddr = 0
    /\ current = 1
    /\ socket_fd = 0
    /\ open = {}
    /\ closed = <<>>
    /\ badClose = FALSE
    /\ tried = <<>>
    /\ connected = 0
    /\ nSend = 0
    /\ sendRet = "none"
    /\ nRecv = 0
    /\ recvRet = "none"
    /\ resp = [kind |-> "unset", doc |-> EmptyDoc]
    /\ nParse = 0
    /\ obj = NullObj
    /\ present = [s \in Subsections |-> "untested"]
    /\ passed = FALSE
    /\ exit = "running"

(***************************************************************************)
(* Resolver and Connector: main(), lines 154-186.                          *)
(***************************************************************************)
\* status = getaddrinfo(...); any non-zero status returns EXIT_FAILURE.
GetAddrInfo ==
    /\ pc = "getaddrinfo"
    /\ \E st \in {"ok", "EAI_SYSTEM", "EAI_OTHER"}, n \in 0..MaxCand :
         /\ status' = st
         /\ IF st = "ok"
              THEN /\ nAddr' = n
                   /\ pc' = IF n = 0 THEN "after_loop" ELSE "socket"
                   /\ exit' = exit
              ELSE /\ nAddr' = nAddr
                   /\ pc' = "exit"
                   /\ exit' = "EXIT_FAILURE"
    /\ UNCHANGED <<current, socket_fd, open, closed, badClose, tried, connected,
                   passed, present>>
    /\ UNCHANGED xchgVars

\* The loop position after `current = current->ai_next` and the loop test.
LoopPc(cur) == IF IsNull(cur) THEN "after_loop" ELSE "socket"

\* socket_fd = socket(...); if (socket_fd < 0) continue;
Socket ==
    /\ pc = "socket"
    /\ \/ /\ socket_fd' = -1
          /\ tried' = Append(tried, "sockfail")
          /\ current' = current + 1
          /\ pc' = LoopPc(current + 1)
          /\ open' = open
       \/ /\ socket_fd' = current
          /\ open' = open \cup {current}
          /\ pc' = "connect"
          /\ UNCHANGED <<tried, current>>
    /\ UNCHANGED <<status, nAddr, closed, badClose, connected, passed, present, exit>>
    /\ UNCHANGED xchgVars

\* Faulty variant: a successful connect() does not leave the loop (`continue` for `break`).
ConnectNoBreak ==
    /\ pc = "connect"
    /\ \/ /\ tried' = Append(tried, "ok")
          /\ connected' = socket_fd
          /\ current' = current + 1
          /\ pc' = LoopPc(current + 1)
       \/ /\ tried' = Append(tried, "connfail")
          /\ connected' = connected
          /\ current' = current
          /\ pc' = "close_cand"
    /\ UNCHANGED <<status, nAddr, socket_fd, open, closed, badClose,
                   passed, present, exit>>
    /\ UNCHANGED xchgVars

\* if (connect(socket_fd, ...) == 0) break;
Connect ==
    /\ pc = "connect"
    /\ \/ /\ tried' = Append(tried, "ok")
          /\ connected' = socket_fd
          /\ pc' = "after_loop"
       \/ /\ tried' = Append(tried, "connfail")
          /\ connected' = connected
          /\ pc' = "close_cand"
    /\ UNCHANGED <<status, nAddr, current, socket_fd, open, closed, badClose,
                   passed, present, exit>>
    /\ UNCHANGED xchgVars

\* Faulty variant: the socket of a candidate whose connect() failed is not closed.
CloseCandidateLeak ==
    /\ pc = "close_cand"
    /\ current' = current + 1
    /\ pc' = LoopPc(current + 1)
    /\ UNCHANGED <<status, nAddr, socket_fd, open, closed, badClose, tried,
                   connected, passed, present, exit>>
    /\ UNCHANGED xchgVars

\* close(socket_fd); then current = current->ai_next.
CloseCandidate ==
    /\ pc = "close_cand"
    /\ badClose' = (badClose \/ socket_fd \notin open)
    /\ open' = open \ {socket_fd}
    /\ closed' = Append(closed, socket_fd)
    /\ current' = current + 1
    /\ pc' = LoopPc(current + 1)
    /\ UNCHANGED <<status, nAddr, socket_fd, tried, connected, passed, present, exit>>
    /\ UNCHANGED xchgVars

\* Faulty variant: the exhaustion test looks at the descriptor (`socket_fd < 0`) instead
\* of the list position.
AfterLoopTestsFd ==
    /\ pc = "after_loop"
    /\ IF socket_fd < 0
         THEN /\ pc' = "exit"
              /\ exit' = "EXIT_FAILURE"
         ELSE /\ pc' = "send"
              /\ exit' = exit
    /\ UNCHANGED <<passed, present>>
    /\ UNCHANGED connVars
    /\ UNCHANGED xchgVars

\* freeaddrinfo(addresses); if (current == NULL) return EXIT_FAILURE;
AfterLoop ==
    /\ pc = "after_loop"
    /\ IF IsNull(current)
         THEN /\ pc' = "exit"
              /\ exit' = "EXIT_FAILURE"
         ELSE /\ pc' = "send"
              /\ exit' = exit
    /\ UNCHANGED <<passed, present>>
    /\ UNCHANGED connVars
    /\ UNCHANGED xchgVars

(***************************************************************************)
(* Transport: json_send_and_receive(), lines 48-76.                        *)
(***************************************************************************)
\* ret = send(sockfd, req, strlen(buf), 0); if (ret == -1) return NULL;
Send ==
    /\ pc = "send"
    /\ nSend' = nSend + 1
    /\ \/ /\ sendRet' = "err"
          /\ obj' = NullObj
          /\ pc' = "disciplining"
       \/ /\ sendRet' = "ok"
          /\ obj' = obj
          /\ pc' = "recv"
    /\ UNCHANGED <<nRecv, recvRet, resp, nParse, passed, present, exit>>
    /\ UNCHANGED connVars

\* resp = malloc(2048); ret = recv(sockfd, resp, 2048, 0); if (-1 == ret) return NULL;
\* Only -1 is tested: with 0 bytes received the buffer stays as malloc() left it
\* and execution goes on to json_tokener_parse(resp).
Recv ==
    /\ pc = "recv"
    /\ nRecv' = nRecv + 1
    /\ \/ /\ recvRet' = "err"
          /\ resp' = [kind |-> "uninit", doc |-> EmptyDoc]
          /\ obj' = NullObj
          /\ pc' = "disciplining"
       \/ /\ recvRet' = "zero"
          /\ resp' = [kind |-> "uninit", doc |-> EmptyDoc]
          /\ obj' = obj
          /\ pc' = "parse"
       \/ /\ recvRet' = "data"
          /\ \/ resp' = [kind |-> "malformed", doc |-> EmptyDoc]
             \/ \E d \in Docs : resp' = [kind |-> "doc", doc |-> d]
          /\ obj' = obj
          /\ pc' = "parse"
    /\ UNCHANGED <<nSend, sendRet, nParse, passed, present, exit>>
    /\ UNCHANGED connVars

\* json_tokener_parse(resp): the values it can return for a buffer.  A complete
\* JSON object parses to itself, bytes that start no JSON document yield NULL,
\* and a buffer that was never written holds indeterminate bytes.
json_tokener_parse(r) ==
    CASE r.kind = "doc"       -> {ObjOf(r.doc)}
      [] r.kind = "malformed" -> {NullObj}
      [] OTHER                -> {NullObj} \cup {ObjOf(d) : d \in Docs}

\* return json_tokener_parse(resp);
Parse ==
    /\ pc = "parse"
    /\ nParse' = nParse + 1
    /\ \E o \in json_tokener_parse(resp) : obj' = o
    /\ pc' = "disciplining"
    /\ UNCHANGED <<nSend, sendRet, nRecv, recvRet, resp, passed, present, exit>>
    /\ UNCHANGED connVars

(***************************************************************************)
(* Decoder: main(), lines 189-342.                                         *)
(***************************************************************************)
\* json_object_object_get_ex(o, key, &layer) followed by `layer != NULL`:
\* a NULL or keyless object yields a NULL layer.
json_object_object_get_ex(o, key) == (~o.null) /\ key \in o.doc.keys

Mark(sub, found) == [present EXCEPT ![sub] = IF found THEN "present" ELSE "absent"]

\* The process is killed by the NULL dereference; nothing after it runs.
Crash ==
    /\ pc' = "exit"
    /\ exit' = "SIGSEGV"

\* Lines 196-225.  With "status" missing, status is NULL and strcmp(status, ...)
\* is undefined: the process either dies there or carries on.
Disciplining ==
    /\ pc = "disciplining"
    /\ LET found == json_object_object_get_ex(obj, "disciplining") IN
         /\ present' = Mark("disciplining", found)
         /\ IF found /\ obj.doc.status = "absent"
              THEN \/ Crash
                   \/ /\ pc' = "oscillator"
                      /\ exit' = exit
              ELSE /\ pc' = "oscillator"
                   /\ exit' = exit
    /\ UNCHANGED passed
    /\ UNCHANGED connVars
    /\ UNCHANGED xchgVars

\* A subsection whose members are only fetched and logged: the look-up of
\* `key` in obj decides the presence of subsection `sub`; control moves to `nxt`.
TestSection(key, sub, nxt) ==
    /\ present' = Mark(sub, json_object_object_get_ex(obj, key))
    /\ pc' = nxt
    /\ UNCHANGED <<passed, exit>>
    /\ UNCHANGED connVars
    /\ UNCHANGED xchgVars

\* Lines 227-246.
Oscillator ==
    /\ pc = "oscillator"
    /\ TestSection("oscillator", "oscillator", "clock")

\* Lines 248-258.
Clock ==
    /\ pc = "clock"
    /\ TestSection("clock", "clock", "gnss")

\* Lines 260-285.
Gnss ==
    /\ pc = "gnss"
    /\ TestSection("gnss", "gnss", "disciplining_parameters")

\* Lines 287-337.  json_object_object_foreach() on a temperature_table that is
\* not a JSON object dereferences the NULL table of json_object_get_object().
DiscipliningParameters ==
    /\ pc = "disciplining_parameters"
    /\ LET found == json_object_object_get_ex(obj, "disciplining_parameters") IN
         /\ present' = Mark("disciplining_parameters", found)
         /\ IF found /\ obj.doc.temperature_table = "nonobject"
              THEN \/ Crash
                   \/ /\ pc' = "action"
                      /\ exit' = exit
              ELSE /\ pc' = "action"
                   /\ exit' = exit
    /\ UNCHANGED passed
    /\ UNCHANGED connVars
    /\ UNCHANGED xchgVars

\* Lines 339-342: the key looked up is "Action requested".
ActionRequested ==
    /\ pc = "action"
    /\ TestSection("Action requested", "action_requested", "finish")

\* Lines 344-350: free(obj); close(socket_fd); log "PASSED !"; return EXIT_SUCCESS.
Finish ==
    /\ pc = "finish"
    /\ badClose' = (badClose \/ socket_fd \notin open)
    /\ open' = open \ {socket_fd}
    /\ closed' = Append(closed, socket_fd)
    /\ passed' = TRUE
    /\ exit' = "EXIT_SUCCESS"
    /\ pc' = "exit"
    /\ UNCHANGED <<status, nAddr, current, socket_fd, tried, connected, present>>
    /\ UNCHANGED xchgVars

Next ==
    \/ GetAddrInfo
    \/ Socket
    \/ Connect
    \/ CloseCandidate
    \/ AfterLoop
    \/ Send
    \/ Recv
    \/ Parse
    \/ Disciplining
    \/ Oscillator
    \/ Clock
    \/ Gnss
    \/ DiscipliningParameters
    \/ ActionRequested
    \/ Finish

Spec == Init /\ [][Next]_vars

(***************************************************************************)
(* Properties.                                                             *)
(***************************************************************************)
Terminated == pc = "exit"

\* Step 2 of the decoder (the subsection look-ups of main()) has started.
Extracting == \E s \in Subsections : present[s] # "untested"

\* The reply was received with data and is a complete JSON object.
WellFormedReply == recvRet = "data" /\ resp.kind = "doc"

\* Every candidate has been tried and none connected (vacuous list included).
AllFailed ==
    /\ status = "ok"
    /\ Len(tried) = nAddr
    /\ \A i \in 1..Len(tried) : tried[i] # "ok"

\* C1: once connect() has succeeded, every terminal state has exactly one
\* close() of the connected socket.
C1_ClosedExactlyOnce ==
    (Terminated /\ connected # 0) => CountIn(closed, connected) = 1

\* C2: when candidate k is the first to connect (all earlier ones failed), the
\* loop has stopped at k, the connection is to k, nothing after k was tried, and
\* every socket opened for an earlier candidate has been closed.
C2_FirstSuccessWins ==
    \A k \in 1..Len(tried) :
        tried[k] = "ok" =>
            /\ k = Len(tried)
            /\ current = k /\ connected = k /\ socket_fd = k
            /\ pc \notin {"socket", "connect", "close_cand"}
            /\ open \subseteq {k}
            /\ (exit = "running" => k \in open)
            /\ \A i \in 1..(k - 1) :
                 /\ i \notin open
                 /\ (tried[i] = "connfail" => CountIn(closed, i) = 1)

C2_Witness ==
    /\ pc = "send"
    /\ tried = <<"connfail", "sockfail", "ok">>
    /\ connected = 3

\* C3: with an empty or fully failing candidate list the invocation ends with
\* EXIT_FAILURE, leaves no socket open, and never sends or receives.
C3_ExhaustedFails ==
    AllFailed =>
        /\ connected = 0
        /\ nSend = 0 /\ nRecv = 0 /\ nParse = 0 /\ ~Extracting
        /\ pc \in {"close_cand", "after_loop", "exit"}
        /\ (pc # "close_cand" => open = {})
        /\ (Terminated => exit = "EXIT_FAILURE" /\ ~passed)

C3_Witness ==
    /\ Terminated
    /\ AllFailed
    /\ nAddr >= 2
    /\ tried[1] = "connfail"
    /\ tried[nAddr] = "sockfail"
    /\ exit = "EXIT_FAILURE"

\* C4: a failed send() ends the exchange: no recv(), no decode, no success
\* report, and a non-zero exit status.
C4_SendErrorFatal ==
    sendRet = "err" =>
        /\ nRecv = 0
        /\ nParse = 0 /\ ~Extracting
        /\ ~passed
        /\ (Terminated => exit # "EXIT_SUCCESS")

\* C5: recv() returning -1 or 0 bytes ends the exchange: the buffer is never
\* given to the parser and the exit status is non-zero.
C5_RecvFailureFatal ==
    recvRet \in {"err", "zero"} =>
        /\ nParse = 0
        /\ (Terminated => exit # "EXIT_SUCCESS")

\* C6: a reply that is not well-formed produces no report: the invocation does
\* not end as a success, and not with the outcome of a well-formed reply that
\* holds none of the six subsections (success, every subsection absent).
C6_MalformedIsDecodeError ==
    (Terminated /\ recvRet = "data" /\ resp.kind = "malformed") =>
        /\ ~passed
        /\ exit # "EXIT_SUCCESS"
        /\ ~(\A s \in Subsections : present[s] = "absent")

\* C7: for a well-formed reply a missing or wrongly typed member never aborts
\* the decode: every subsection is tested, the connection is closed and the
\* invocation ends normally.
C7_FieldDefaultsNeverAbort ==
    (Terminated /\ WellFormedReply) =>
        /\ \A s \in Subsections : present[s] # "untested"
        /\ CountIn(closed, connected) = 1
        /\ exit = "EXIT_SUCCESS"

\* C8: for a well-formed reply each of the six subsections is reported present
\* exactly when its key (disciplining, oscillator, clock, gnss,
\* disciplining_parameters, action_requested) occurs in the reply, whatever the
\* other keys are.
C8_PresenceIffKey ==
    (Terminated /\ WellFormedReply) =>
        \A s \in Subsections :
            present[s] = IF s \in resp.doc.keys THEN "present" ELSE "absent"

\* C9: at most one send and one receive; send only after a successful connect,
\* receive only after a successful send, decode only after a successful
\* receive; a resolver failure ends the invocation before any socket exists.
C9_OneOrderedExchange ==
    /\ nSend <= 1 /\ nRecv <= 1 /\ nParse <= 1
    /\ (nSend > 0 => connected # 0)
    /\ (nRecv > 0 => sendRet = "ok")
    /\ ((nParse > 0 \/ Extracting) => recvRet = "data")
    /\ (status \in {"EAI_SYSTEM", "EAI_OTHER"} =>
            Terminated /\ tried = <<>> /\ open = {} /\ socket_fd = 0 /\ nSend = 0)

\* C10: at most one socket is open at any time, close() is only called on an
\* open socket, no socket is open when the next one is created, a failed
\* connect() is followed by one close() of that socket and a failed socket()
\* by none.
C10_AtMostOneOpen ==
    /\ Cardinality(open) <= 1
    /\ ~badClose
    /\ (pc = "socket" => open = {})
    /\ \A i \in 1..Len(tried) :
         /\ (tried[i] = "sockfail" => i \notin open /\ CountIn(closed, i) = 0)
         /\ (tried[i] = "connfail" /\ (i < Len(tried) \/ pc # "close_cand") =>
                i \notin open /\ CountIn(closed, i) = 1)

C10_Witness ==
    /\ pc = "connect"
    /\ tried = <<"connfail", "sockfail">>
    /\ open = {3}
    /\ closed = <<1>>
====
